---- MODULE Spec2Model ----
(***************************************************************************)
(* Model of injekt (src/injekt/__init__.py): the process-wide singleton   *)
(* registry _instances, the patched __new__/__init__ installed by @inject, *)
(* the constructor-injection loop inject_dependencies and the type        *)
(* resolution policy _get_or_create_instance.                              *)
(*                                                                         *)
(* A Python program using the library is a set of class definitions (a    *)
(* "type universe") followed by calls T(...), reset() and resolutions.    *)
(* Init picks one of the universes below; the actions are the calls.      *)
(***************************************************************************)
EXTENDS Integers, Sequences, FiniteSets, TLC

VARIABLES univ, registry, heap, held, last, threads

vars == <<univ, registry, heap, held, last, threads>>

(***************************************************************************)
(* Bounds                                                                  *)
(***************************************************************************)
\* largest number of objects the program allocates in one run
MaxInst == 3
\* nesting depth of constructor calls after which the interpreter gives up
\* (RecursionError); every terminating chain of the universes is shorter
MaxDepth == 5

(***************************************************************************)
(* Values                                                                  *)
(***************************************************************************)
\* an object that was not created from a class of the universe (a mock)
Mock == 0
\* "no value": a parameter that was not supplied, a field that was not set,
\* the None that _find_subclass_instance returns
Unset == -1
\* a parameter without type hint
NoType == "-"

(***************************************************************************)
(* Type universes.  A class is a record: its name, its direct bases, whether*)
(* inspect.isabstract holds, how @inject was applied ("class": on the      *)
(* class, "method": on __init__ only, "none": not at all), whether its     *)
(* instances are falsy (define __bool__/__len__), and the parameters of    *)
(* its __init__ after self.  Classes are listed in definition order, which *)
(* is the order of __subclasses__().                                       *)
(***************************************************************************)
Pm(n, t) == [name |-> n, type |-> t]

Ty(n, b, a, m, f, p) ==
    [name |-> n, bases |-> b, abstract |-> a, mode |-> m, falsy |-> f, params |-> p]

\* tests/test_core.py, tests/test_mocking.py: a service, its dependency, a mock
UCore ==
    << Ty("Dependency", {}, FALSE, "class", FALSE, <<>>),
       Ty("MockLogger", {}, FALSE, "none", FALSE, <<>>),
       Ty("Service", {}, FALSE, "class", FALSE, <<Pm("dependency", "Dependency")>>) >>

\* tests/test_core.py test_inject_with_multiple_dependencies
UMulti ==
    << Ty("DependencyA", {}, FALSE, "class", FALSE, <<>>),
       Ty("DependencyB", {}, FALSE, "class", FALSE, <<>>),
       Ty("MultiService", {}, FALSE, "class", FALSE,
          <<Pm("dependency_a", "DependencyA"), Pm("dependency_b", "DependencyB")>>) >>

\* the same with a marked subclass of the first dependency
UMultiSub ==
    << Ty("BaseA", {}, FALSE, "class", FALSE, <<>>),
       Ty("DerivedA", {"BaseA"}, FALSE, "class", FALSE, <<>>),
       Ty("OtherB", {}, FALSE, "class", FALSE, <<>>),
       Ty("PairService", {}, FALSE, "class", FALSE,
          <<Pm("dependency_a", "BaseA"), Pm("dependency_b", "OtherB")>>) >>

\* tests/test_mocking.py test_subclass_injection, with an abstract first
\* subclass and a second concrete one
UDatabase ==
    << Ty("Database", {}, FALSE, "none", FALSE, <<>>),
       Ty("DraftDatabase", {"Database"}, TRUE, "none", FALSE, <<>>),
       Ty("BQDatabase", {"Database"}, FALSE, "class", FALSE, <<>>),
       Ty("MockDatabase", {"Database"}, FALSE, "none", FALSE, <<>>),
       Ty("UserService", {}, FALSE, "class", FALSE, <<Pm("database", "Database")>>) >>

\* an abstract class without any subclass
URepo ==
    << Ty("Repository", {}, TRUE, "none", FALSE, <<>>),
       Ty("RepoService", {}, FALSE, "class", FALSE, <<Pm("repo", "Repository")>>),
       Ty("Auditor", {}, FALSE, "class", FALSE, <<Pm("service", "RepoService")>>) >>

\* an abstract class whose only subclass is abstract too
UShape ==
    << Ty("Shape", {}, TRUE, "none", FALSE, <<>>),
       Ty("Polygon", {"Shape"}, TRUE, "class", FALSE, <<>>),
       Ty("Canvas", {}, FALSE, "class", FALSE, <<Pm("shape", "Shape")>>) >>

\* an abstract class whose concrete implementer is two levels down
UStore ==
    << Ty("Store", {}, TRUE, "none", FALSE, <<>>),
       Ty("SqlStore", {"Store"}, TRUE, "none", FALSE, <<>>),
       Ty("PgStore", {"SqlStore"}, FALSE, "class", FALSE, <<>>),
       Ty("StoreService", {}, FALSE, "class", FALSE, <<Pm("store", "Store")>>) >>

\* dependency cycles among marked classes
UCycle ==
    << Ty("Chicken", {}, FALSE, "class", FALSE, <<Pm("egg", "Egg")>>),
       Ty("Egg", {}, FALSE, "class", FALSE, <<Pm("chicken", "Chicken")>>),
       Ty("Narcissus", {}, FALSE, "class", FALSE, <<Pm("me", "Narcissus")>>) >>

\* an unmarked implementer whose instances are falsy
UFalsy ==
    << Ty("Container", {}, FALSE, "none", FALSE, <<>>),
       Ty("EmptyList", {"Container"}, FALSE, "none", TRUE, <<>>),
       Ty("Holder", {}, FALSE, "class", FALSE, <<Pm("items", "Container")>>) >>

\* @inject on __init__ only (no singleton), and a parameter without type hint
UCar ==
    << Ty("Engine", {}, FALSE, "class", FALSE, <<>>),
       Ty("Car", {}, FALSE, "method", FALSE,
          <<Pm("name", NoType), Pm("engine", "Engine")>>) >>

\* two parameters of related types, the subclass first
UGarage ==
    << Ty("Motor", {}, FALSE, "class", FALSE, <<>>),
       Ty("Turbo", {"Motor"}, FALSE, "class", FALSE, <<>>),
       Ty("Garage", {}, FALSE, "class", FALSE,
          <<Pm("turbo", "Turbo"), Pm("motor", "Motor")>>) >>

\* two parameters of related types, the subclass first, the subclass unmarked
\* and its instances falsy
UShelf ==
    << Ty("Box", {}, FALSE, "none", FALSE, <<>>),
       Ty("EmptyBox", {"Box"}, FALSE, "none", TRUE, <<>>),
       Ty("Shelf", {}, FALSE, "class", FALSE,
          <<Pm("front", "EmptyBox"), Pm("back", "Box")>>) >>

\* marked classes only: a class whose instances are falsy and that requires
\* an instance of its own base class
UHollow ==
    << Ty("Node", {}, FALSE, "class", FALSE, <<>>),
       Ty("NullNode", {"Node"}, FALSE, "class", TRUE, <<Pm("peer", "Node")>>) >>

Universes ==
    << UCore, UMulti, UMultiSub, UDatabase, URepo, UShape, UStore, UCycle,
       UFalsy, UCar, UGarage, UShelf, UHollow >>

Range(s) == {s[i] : i \in DOMAIN s}

Classes == Universes[univ]
Types == {Classes[i].name : i \in DOMAIN Classes}
Class(T) == CHOOSE c \in Range(Classes) : c.name = T
Params(T) == Class(T).params
IsAbstract(T) == Class(T).abstract
Falsy(T) == Class(T).falsy

\* issubclass(C, P): reflexive and transitive over the bases
RECURSIVE IsSubclass(_, _)
IsSubclass(C, P) ==
    \/ C = P
    \/ \E B \in Class(C).bases : IsSubclass(B, P)

\* P.__subclasses__(): the direct subclasses in definition order
DirectSubclasses(P) ==
    SelectSeq([i \in DOMAIN Classes |-> Classes[i].name],
              LAMBDA C : P \in Class(C).bases)

\* make_singleton replaces cls.__new__; a subclass inherits the replacement
IsSingleton(T) == \E A \in Types : IsSubclass(T, A) /\ Class(A).mode = "class"

\* the base class of T (every class of the universes has at most one)
Parent(T) ==
    IF Class(T).bases = {} THEN NoType ELSE CHOOSE B \in Class(T).bases : TRUE

\* the first class marked with @inject on the way from T up its base classes:
\* the class whose make_singleton installed the __new__ that T has
RECURSIVE MarkedFrom(_)
MarkedFrom(T) ==
    IF T = NoType THEN NoType
    ELSE IF Class(T).mode = "class" THEN T
    ELSE MarkedFrom(Parent(T))

\* the same, starting above A: the class whose __new__ A had when
\* make_singleton(A) saved it as original_new
MarkedAbove(A) == MarkedFrom(Parent(A))

\* inject wraps __init__ with inject_dependencies
Injects(T) == Class(T).mode \in {"class", "method"}


(***************************************************************************)
(* The registry _instances: a dict, kept here as the sequence of its       *)
(* entries in insertion order.                                             *)
(***************************************************************************)
Entry(T, v) == [cls |-> T, inst |-> v]

Keys(reg) == {reg[i].cls : i \in DOMAIN reg}

\* cls in _instances
InRegistry(reg, T) == T \in Keys(reg)

\* _instances[cls]
Lookup(reg, T) == (CHOOSE e \in Range(reg) : e.cls = T).inst

\* _instances[cls] = instance: an existing key keeps its position
Put(reg, T, v) ==
    IF InRegistry(reg, T)
    THEN [i \in DOMAIN reg |-> IF reg[i].cls = T THEN Entry(T, v) ELSE reg[i]]
    ELSE Append(reg, Entry(T, v))

(***************************************************************************)
(* Objects.  heap[i] is the object with identity i: its class, the values  *)
(* its __init__ stored (one per parameter, Unset before __init__ ran).     *)
(***************************************************************************)
NoArgs(T) == [i \in DOMAIN Params(T) |-> Unset]

Object(T) == [type |-> T, fields |-> NoArgs(T)]

\* an object that nothing refers to any more has been released; its identity
\* is not given to another object
Freed == [type |-> NoType, fields |-> <<>>]

Refs(hp, ids) ==
    ids \cup {v \in DOMAIN hp : \E i \in ids : \E j \in DOMAIN hp[i].fields :
                                   hp[i].fields[j] = v}

RECURSIVE Reachable(_, _)
Reachable(hp, ids) ==
    IF Refs(hp, ids) = ids THEN ids ELSE Reachable(hp, Refs(hp, ids))

\* the objects the registry and the holders of roots can reach
Live(hp, reg, roots) ==
    Reachable(hp, ({reg[i].inst : i \in DOMAIN reg} \cup roots) \cap DOMAIN hp)

\* the objects that exist
Alive(hp) == {x \in DOMAIN hp : hp[x].type # NoType}

\* the objects whose reference count is 0: nothing outside the heap refers
\* to them (keep) and no object that exists has them in a field
Unreferenced(hp, keep) ==
    {x \in Alive(hp) \ keep :
        \A y \in Alive(hp) : \A j \in DOMAIN hp[y].fields : hp[y].fields[j] # x}

\* an object is released when its reference count falls to 0, and with it
\* its references to other objects; objects that refer to each other stay
RECURSIVE Release(_, _)
Release(hp, keep) ==
    IF Unreferenced(hp, keep) = {} THEN hp
    ELSE Release([x \in DOMAIN hp |->
                     IF x \in Unreferenced(hp, keep) THEN Freed ELSE hp[x]], keep)

\* the heap once the objects that neither the registry nor the caller
\* refers to have been released
Collect(hp, reg, h) == Release(hp, Live(hp, reg, {h}))

\* the same for a program whose threads refer to the objects of roots
CollectFrom(hp, reg, roots) == Release(hp, Live(hp, reg, roots))

\* the heap once the interpreter's cycle collector has run: every object
\* that can not be reached is released
CollectUnreachable(hp, reg, roots) ==
    [i \in DOMAIN hp |-> IF i \in Live(hp, reg, roots) THEN hp[i] ELSE Freed]

(***************************************************************************)
(* The state threaded through one call of the library, and what the call   *)
(* did: the classes whose constructor was called, the original __init__    *)
(* runs, the resolutions and the injected parameters.                      *)
(***************************************************************************)
Start(reg, hp) ==
    [reg |-> reg, heap |-> hp, calls |-> <<>>, inits |-> <<>>,
     resolves |-> <<>>, injects |-> <<>>]

\* Pick({e(x) : x \in {v}}) is "LET x == v IN e(x)" with v evaluated once
Pick(S) == CHOOSE x \in S : TRUE

Ok(st, v) == [st |-> st, ok |-> TRUE, val |-> v, err |-> "", ecls |-> NoType]

Raise(st, e, T) == [st |-> st, ok |-> FALSE, val |-> Unset, err |-> e, ecls |-> T]

\* object.__new__(cls), the __new__ of a class without marked base class:
\* refuses a class with abstract methods
ObjectNew(st, T) ==
    IF IsAbstract(T)
    THEN Raise(st, "CantInstantiateAbstract", T)
    ELSE Ok([st EXCEPT !.heap = Append(@, Object(T))], Len(st.heap) + 1)

RECURSIVE SingletonNew(_, _, _)

\* original_new(cls) as make_singleton(A) saved it, called with cls = T: the
\* __new__ installed for the next marked class above A, or object.__new__
OriginalNew(st, T, A) ==
    IF MarkedAbove(A) = NoType
    THEN ObjectNew(st, T)
    ELSE SingletonNew(st, T, MarkedAbove(A))

\* a __new__ that does not keep the instance it creates
SingletonNewForgetsToStore(st, T, A) ==
    IF ~InRegistry(st.reg, T) THEN OriginalNew(st, T, A) ELSE Ok(st, Lookup(st.reg, T))

\* a __new__ that does not look for the instance it created earlier
SingletonNewAlwaysFresh(st, T, A) ==
    Pick({IF ~n.ok THEN n
          ELSE Ok([n.st EXCEPT !.reg = Put(@, T, n.val)], n.val) :
          n \in {OriginalNew(st, T, A)}})

\* the __new__ that make_singleton(A) installs, called with cls = T
SingletonNew(st, T, A) ==
    IF ~InRegistry(st.reg, T)
    THEN Pick({IF ~n.ok THEN n
               ELSE Ok([n.st EXCEPT !.reg = Put(@, T, n.val)],
                       Lookup(Put(n.st.reg, T, n.val), T)) :
               n \in {OriginalNew(st, T, A)}})
    ELSE Ok(st, Lookup(st.reg, T))

\* cls.__new__(cls, *args, **kwargs)
New(st, T) ==
    IF IsSingleton(T) THEN SingletonNew(st, T, MarkedFrom(T)) ELSE ObjectNew(st, T)

\* init_func(self, *args, **kwargs): the class's own __init__, which stores
\* its arguments; a parameter left without value is a TypeError
OriginalInit(st, T, self, pos, kw) ==
    LET args == [i \in DOMAIN Params(T) |-> IF i <= Len(pos) THEN pos[i] ELSE kw[i]]
    IN  IF \E i \in DOMAIN args : args[i] = Unset
        THEN Raise(st, "MissingArgument", T)
        ELSE Ok([st EXCEPT !.heap[self].fields = args,
                           !.inits = Append(@, [inst |-> self, args |-> args])],
                self)

\* _find_subclass_instance without the issubclass test
FindSubclassInstanceAnyEntry(reg, P) ==
    LET hits == SelectSeq(reg, LAMBDA e : e.cls # P)
    IN  IF hits = <<>> THEN Unset ELSE hits[1].inst

\* _find_subclass_instance
FindSubclassInstance(reg, P) ==
    LET hits == SelectSeq(reg, LAMBDA e : IsSubclass(e.cls, P) /\ e.cls # P)
    IN  IF hits = <<>> THEN Unset ELSE hits[1].inst

\* bool(instance), as in "if subclass_instance:"
Truthy(hp, v) == v # Unset /\ ~Falsy(hp[v].type)

\* _get_concrete_subclasses without the test for abstract classes
GetConcreteSubclassesWithAbstract(reg, P) ==
    LET fromRegistry ==
            SelectSeq([i \in DOMAIN reg |-> reg[i].cls],
                      LAMBDA C : IsSubclass(C, P) /\ C # P)
        declared ==
            SelectSeq(DirectSubclasses(P), LAMBDA C : C \notin Range(fromRegistry))
    IN  fromRegistry \o declared

\* _get_concrete_subclasses
GetConcreteSubclasses(reg, P) ==
    LET fromRegistry ==
            SelectSeq([i \in DOMAIN reg |-> reg[i].cls],
                      LAMBDA C : IsSubclass(C, P) /\ C # P)
        declared ==
            SelectSeq(DirectSubclasses(P),
                      LAMBDA C : ~IsAbstract(C) /\ C \notin Range(fromRegistry))
    IN  fromRegistry \o declared

RECURSIVE Call(_, _, _, _, _)
RECURSIVE InjectDependencies(_, _, _, _, _, _, _)
RECURSIVE GetOrCreateInstance(_, _, _)

\* _create_and_register_instance
CreateAndRegisterInstance(st, C, d) ==
    Pick({IF ~r.ok THEN r
          ELSE Ok([r.st EXCEPT !.reg = Put(@, C, r.val)], r.val) :
          r \in {Call(st, C, <<>>, NoArgs(C), d)}})

\* the rules with the search for a subclass instance tried before the look-up
\* of P itself
RuleSubclassFirst(st, P) ==
    IF Truthy(st.heap, FindSubclassInstance(st.reg, P)) THEN [n |-> 2, ctor |-> NoType]
    ELSE IF InRegistry(st.reg, P) THEN [n |-> 1, ctor |-> NoType]
    ELSE IF DirectSubclasses(P) # <<>>
         THEN Pick({IF cs # <<>> THEN [n |-> 3, ctor |-> cs[1]]
                    ELSE [n |-> 4, ctor |-> NoType] :
                    cs \in {GetConcreteSubclasses(st.reg, P)}})
    ELSE [n |-> 5, ctor |-> P]

\* the rule of _get_or_create_instance that decides P, and the class it
\* constructs (NoType when it constructs nothing)
Rule(st, P) ==
    IF InRegistry(st.reg, P) THEN [n |-> 1, ctor |-> NoType]
    ELSE IF Truthy(st.heap, FindSubclassInstance(st.reg, P)) THEN [n |-> 2, ctor |-> NoType]
    ELSE IF DirectSubclasses(P) # <<>>
         THEN Pick({IF cs # <<>> THEN [n |-> 3, ctor |-> cs[1]]
                    ELSE [n |-> 4, ctor |-> NoType] :
                    cs \in {GetConcreteSubclasses(st.reg, P)}})
    ELSE [n |-> 5, ctor |-> P]

\* the record of one resolution: what was asked, the rule that decided it,
\* the result and its class, and the registry and the number of constructor
\* calls before and after
Resolution(st, P, rule, r) ==
    [type |-> P, rule |-> rule.n, ctor |-> rule.ctor,
     ok |-> r.ok, val |-> r.val, err |-> r.err, ecls |-> r.ecls,
     vtype |-> IF r.ok THEN r.st.heap[r.val].type ELSE NoType,
     regBefore |-> st.reg, regAfter |-> r.st.reg,
     callsBefore |-> Len(st.calls), callsAfter |-> Len(r.st.calls)]

\* _get_or_create_instance
GetOrCreateInstance(st, P, d) ==
    Pick({Pick({[r EXCEPT !.st.resolves = Append(@, Resolution(st, P, rule, r))] :
                r \in {CASE rule.n = 1 -> Ok(st, Lookup(st.reg, P))
                         [] rule.n = 2 -> Ok(st, FindSubclassInstance(st.reg, P))
                         [] rule.n = 3 -> CreateAndRegisterInstance(st, rule.ctor, d)
                         [] rule.n = 4 -> Raise(st, "UnresolvableAbstract", P)
                         [] rule.n = 5 -> CreateAndRegisterInstance(st, P, d)}}) :
          rule \in {Rule(st, P)}})

\* inject_dependencies that looks at the positional arguments only and
\* resolves a parameter the caller passed by keyword
InjectDependenciesIgnoresKeywords(st, T, self, pos, kw, i, d) ==
    IF i > Len(Params(T))
    THEN OriginalInit(st, T, self, pos, kw)
    ELSE IF i <= Len(pos)
    THEN InjectDependencies(st, T, self, pos, kw, i + 1, d)
    ELSE IF Params(T)[i].type = NoType
    THEN InjectDependencies(st, T, self, pos, kw, i + 1, d)
    ELSE Pick({IF ~r.ok THEN r
               ELSE InjectDependencies(
                        [r.st EXCEPT !.injects =
                            Append(@, [inst |-> self, param |-> i, val |-> r.val])],
                        T, self, pos, [kw EXCEPT ![i] = r.val], i + 1, d) :
               r \in {GetOrCreateInstance(st, Params(T)[i].type, d)}})

\* inject_dependencies that leaves the loop after the first injection
InjectDependenciesStopsAfterFirst(st, T, self, pos, kw, i, d) ==
    IF i > Len(Params(T))
    THEN OriginalInit(st, T, self, pos, kw)
    ELSE IF i <= Len(pos) \/ kw[i] # Unset
    THEN InjectDependencies(st, T, self, pos, kw, i + 1, d)
    ELSE IF Params(T)[i].type = NoType
    THEN InjectDependencies(st, T, self, pos, kw, i + 1, d)
    ELSE Pick({IF ~r.ok THEN r
               ELSE OriginalInit(
                        [r.st EXCEPT !.injects =
                            Append(@, [inst |-> self, param |-> i, val |-> r.val])],
                        T, self, pos, [kw EXCEPT ![i] = r.val]) :
               r \in {GetOrCreateInstance(st, Params(T)[i].type, d)}})

\* inject_dependencies that looks at the keyword arguments only and resolves
\* a parameter the caller passed by position
InjectDependenciesIgnoresPositionals(st, T, self, pos, kw, i, d) ==
    IF i > Len(Params(T))
    THEN OriginalInit(st, T, self, pos, kw)
    ELSE IF kw[i] # Unset
    THEN InjectDependencies(st, T, self, pos, kw, i + 1, d)
    ELSE IF Params(T)[i].type = NoType
    THEN InjectDependencies(st, T, self, pos, kw, i + 1, d)
    ELSE Pick({IF ~r.ok THEN r
               ELSE InjectDependencies(
                        [r.st EXCEPT !.injects =
                            Append(@, [inst |-> self, param |-> i, val |-> r.val])],
                        T, self, pos, [kw EXCEPT ![i] = r.val], i + 1, d) :
               r \in {GetOrCreateInstance(st, Params(T)[i].type, d)}})

\* inject_dependencies, from parameter i on: the loop over the parameters,
\* then the call of the original __init__
InjectDependencies(st, T, self, pos, kw, i, d) ==
    IF i > Len(Params(T))
    THEN OriginalInit(st, T, self, pos, kw)
    ELSE IF i <= Len(pos) \/ kw[i] # Unset
    THEN InjectDependencies(st, T, self, pos, kw, i + 1, d)
    ELSE IF Params(T)[i].type = NoType
    THEN InjectDependencies(st, T, self, pos, kw, i + 1, d)
    ELSE Pick({IF ~r.ok THEN r
               ELSE InjectDependencies(
                        [r.st EXCEPT !.injects =
                            Append(@, [inst |-> self, param |-> i, val |-> r.val])],
                        T, self, pos, [kw EXCEPT ![i] = r.val], i + 1, d) :
               r \in {GetOrCreateInstance(st, Params(T)[i].type, d)}})

\* cls.__init__(self, *args, **kwargs)
InitObject(st, T, self, pos, kw, d) ==
    IF Injects(T)
    THEN InjectDependencies(st, T, self, pos, kw, 1, d)
    ELSE OriginalInit(st, T, self, pos, kw)

\* T(*pos, **kw): type.__call__ runs __new__ and then __init__ on its result;
\* d is the nesting depth still available
Call(st, T, pos, kw, d) ==
    IF d = 0 THEN Raise(st, "RecursionError", T)
    ELSE Pick({IF ~n.ok THEN n
               ELSE Pick({IF ~i.ok THEN i ELSE Ok(i.st, n.val) :
                          i \in {InitObject(n.st, T, n.val, pos, kw, d - 1)}}) :
               n \in {New([st EXCEPT !.calls = Append(@, T)], T)}})

(***************************************************************************)
(* The program's steps                                                     *)
(***************************************************************************)
NoLog == Start(<<>>, <<>>)

\* the threads of the program besides the main one.  A thread has a stack of
\* frames, one per function it is in; a frame is at a line of its function
\* (pc) and has the function's locals.  keep tells whether the thread binds
\* the object its call returns to a name (x = T()) or drops it (T())
NThreads == 2

Threads == 1 .. NThreads

Idle ==
    [status |-> "idle", cls |-> NoType, stack |-> <<>>, ok |-> TRUE,
     result |-> Unset, err |-> "", keep |-> FALSE]

\* a single-threaded program starts no thread
NoThreads == [t \in Threads |-> Idle]

\* the objects the threads refer to
Roots(thr) ==
    {thr[t].result : t \in {u \in Threads : thr[u].keep}}
        \cup UNION {UNION {{thr[t].stack[k].self, thr[t].stack[k].val,
                            thr[t].stack[k].sub}
                               \cup Range(thr[t].stack[k].kw) :
                           k \in DOMAIN thr[t].stack} :
                    t \in Threads}

Outcome(op, T, pos, kw, r) ==
    [op |-> op, cls |-> T, pos |-> pos, kw |-> kw,
     ok |-> r.ok, val |-> r.val, err |-> r.err, ecls |-> r.ecls,
     regBefore |-> registry, heapBefore |-> Len(heap),
     held |-> held, heldType |-> IF held # Unset THEN heap[held].type ELSE NoType,
     calls |-> r.st.calls, inits |-> r.st.inits,
     resolves |-> r.st.resolves, injects |-> r.st.injects]

\* the values a caller passes: a mock, or the object it holds from an
\* earlier call (custom = Dependency(); Service(dependency=custom))
Values == {Mock} \cup (IF held # Unset THEN {held} ELSE {})

\* the caller keeps the object a call returns, and what it had when the
\* call raises
Keep(r) == IF r.ok THEN r.val ELSE held

\* the ways to supply arguments to T: a positional prefix and keywords for
\* some of the other parameters
Supplied(T) ==
    {a \in [pos : UNION {[(1 .. n) -> Values] : n \in 0 .. Len(Params(T))},
            kw : [(DOMAIN Params(T)) -> (Values \cup {Unset})]] :
        \A i \in DOMAIN Params(T) : i <= Len(a.pos) => a.kw[i] = Unset}

Init ==
    /\ univ \in DOMAIN Universes
    /\ registry = <<>>
    /\ heap = <<>>
    /\ held = Unset
    /\ last = Outcome("start", NoType, <<>>, <<>>, Ok(NoLog, Unset))
    /\ threads = NoThreads

\* the program calls T(*pos, **kw)
Construct(T, pos, kw) ==
    \E r \in {Call(Start(registry, heap), T, pos, kw, MaxDepth)} :
        /\ Len(r.st.heap) <= MaxInst
        /\ registry' = r.st.reg
        /\ held' = Keep(r)
        /\ heap' = Collect(r.st.heap, r.st.reg, Keep(r))
        /\ last' = Outcome("construct", T, pos, kw, r)
        /\ UNCHANGED <<univ, threads>>

\* a resolution of P on its own: _get_or_create_instance(P)
Resolve(P) ==
    \E r \in {GetOrCreateInstance(Start(registry, heap), P, MaxDepth)} :
        /\ Len(r.st.heap) <= MaxInst
        /\ registry' = r.st.reg
        /\ held' = Keep(r)
        /\ heap' = Collect(r.st.heap, r.st.reg, Keep(r))
        /\ last' = Outcome("resolve", P, <<>>, <<>>, r)
        /\ UNCHANGED <<univ, threads>>

\* a reset() that clears nothing
ResetKeepsEntries ==
    /\ last' = Outcome("reset", NoType, <<>>, <<>>, Ok(NoLog, Unset))
    /\ UNCHANGED <<univ, registry, heap, held, threads>>

\* reset()
Reset ==
    /\ registry' = <<>>
    /\ heap' = Collect(heap, <<>>, held)
    /\ last' = Outcome("reset", NoType, <<>>, <<>>, Ok(NoLog, Unset))
    /\ UNCHANGED <<univ, held, threads>>

\* the interpreter's cycle collector runs, at a moment the program does not
\* choose, and releases the objects that only refer to each other
CollectCycles ==
    /\ heap' = CollectUnreachable(heap, registry, {held} \cup Roots(threads))
    /\ heap' # heap
    /\ UNCHANGED <<univ, registry, held, last, threads>>

Next ==
    \/ \E T \in Types : \E a \in Supplied(T) : Construct(T, a.pos, a.kw)
    \/ \E P \in Types : Resolve(P)
    \/ Reset
    \/ CollectCycles

Spec == Init /\ [][Next]_vars

(***************************************************************************)
(* A program with threads.  Each thread makes one request: it calls a      *)
(* class T without arguments, or it calls reset().  The library takes no   *)
(* lock, so the interpreter may switch threads between any two lines.  A   *)
(* step of a thread runs one line that reads or writes _instances, creates *)
(* an object or runs a class's own __init__, together with the lines       *)
(* before it that touch only locals of the frame.  An exception ends the   *)
(* thread (the library catches none).  A thread that has finished refers   *)
(* to the object its call returned if it has bound it to a name; an object *)
(* nothing refers to is released at once, objects that only refer to each  *)
(* other when the cycle collector runs.                                    *)
(***************************************************************************)
\* a frame of function fn at line pc: cls is the class it was called with,
\* own the class whose make_singleton installed it (__new__ only), self the
\* object being initialized, kw the keyword arguments gathered so far, i the
\* parameter at hand or the position of the dict iterator, used the size of
\* the dict when the iteration began, val the value the last call returned
\* (the local instance of __new__, of _create_and_register_instance and of
\* the loop of _find_subclass_instance), sub the local subclass_instance of
\* _get_or_create_instance, list the subclasses collected
Frame(fn, pc, T) ==
    [fn |-> fn, pc |-> pc, cls |-> T, own |-> NoType, self |-> Unset, kw |-> <<>>,
     i |-> 0, used |-> Unset, val |-> Unset, sub |-> Unset, list |-> <<>>]

Top(th) == th.stack[Len(th.stack)]

AtLine(t, fn, pc) ==
    /\ threads[t].status = "run"
    /\ Top(threads[t]).fn = fn
    /\ Top(threads[t]).pc = pc

SetTop(th, f) == [th EXCEPT !.stack[Len(th.stack)] = f]

\* a call: the caller's frame f goes on at line pc when the callee g returns
CallFrom(th, f, pc, g) == [th EXCEPT !.stack = Append(SetTop(th, [f EXCEPT !.pc = pc]).stack, g)]

\* return v: to the frame below, or as the result of the thread's request
Returns(th, v) ==
    IF Len(th.stack) = 1
    THEN [th EXCEPT !.status = "done", !.stack = <<>>, !.result = v]
    ELSE [th EXCEPT !.stack = [k \in 1 .. (Len(th.stack) - 1) |->
                                  IF k = Len(th.stack) - 1
                                  THEN [th.stack[k] EXCEPT !.val = v]
                                  ELSE th.stack[k]]]

\* return of the list of _get_concrete_subclasses
ReturnsList(th, l) ==
    [th EXCEPT !.stack = [k \in 1 .. (Len(th.stack) - 1) |->
                             IF k = Len(th.stack) - 1
                             THEN [th.stack[k] EXCEPT !.list = l]
                             ELSE th.stack[k]]]

\* an exception unwinds every frame of the thread
Raises(th, e) == [th EXCEPT !.status = "done", !.stack = <<>>, !.ok = FALSE, !.err = e]

\* the state after a step of thread t
Becomes(t, th, reg, hp) ==
    /\ threads' = [threads EXCEPT ![t] = th]
    /\ registry' = reg
    /\ heap' = CollectFrom(hp, reg, Roots([threads EXCEPT ![t] = th]))
    /\ UNCHANGED <<univ, held, last>>

\* the frame f of thread t gets a new object of class T and goes on at pc
Allocates(t, f, T, pc) ==
    \E n \in {ObjectNew(Start(registry, heap), T)} :
        IF n.ok
        THEN /\ Len(n.st.heap) <= MaxInst
             /\ Becomes(t, SetTop(threads[t], [f EXCEPT !.val = n.val, !.pc = pc]),
                        registry, n.st.heap)
        ELSE Becomes(t, Raises(threads[t], n.err), registry, heap)

\* the frame's class's own __init__ runs on object x with the arguments kw;
\* the thread is th afterwards
Initializes(t, T, x, kw, th) ==
    \E r \in {OriginalInit(Start(registry, heap), T, x, <<>>, kw)} :
        IF r.ok
        THEN Becomes(t, th, registry, r.st.heap)
        ELSE Becomes(t, Raises(threads[t], r.err), registry, heap)

\* the number of constructor calls a thread is in
Depth(th) == Cardinality({k \in DOMAIN th.stack : th.stack[k].fn = "call"})

\* thread t calls T(), keeping the object returned or not
Request(t, T, keep) ==
    /\ threads[t].status = "idle"
    /\ Becomes(t, [Idle EXCEPT !.status = "run", !.cls = T, !.keep = keep,
                               !.stack = <<Frame("call", "new", T)>>],
               registry, heap)

\* thread t calls reset(): _instances.clear()
ThreadReset(t) ==
    /\ threads[t].status = "idle"
    /\ Becomes(t, [Idle EXCEPT !.status = "done", !.cls = "reset"], <<>>, heap)

\* type.__call__: obj = cls.__new__(cls)
CallNew(t) ==
    /\ AtLine(t, "call", "new")
    /\ LET th == threads[t]
           f == Top(th)
       IN  IF Depth(th) > MaxDepth
           THEN Becomes(t, Raises(th, "RecursionError"), registry, heap)
           ELSE IF IsSingleton(f.cls)
           THEN Becomes(t, CallFrom(th, f, "init",
                                    [Frame("new", "20", f.cls)
                                        EXCEPT !.own = MarkedFrom(f.cls)]),
                        registry, heap)
           ELSE Allocates(t, f, f.cls, "init")

\* type.__call__: obj.__init__(), the patched __init__ (lines 47-49) or the
\* class's own
CallInit(t) ==
    /\ AtLine(t, "call", "init")
    /\ LET th == threads[t]
           f == [Top(th) EXCEPT !.self = Top(th).val]
       IN  IF Injects(f.cls)
           THEN Becomes(t, CallFrom(th, f, "ret",
                                    [Frame("inject", "176", f.cls)
                                        EXCEPT !.self = f.self, !.kw = NoArgs(f.cls),
                                               !.i = 1]),
                        registry, heap)
           ELSE Initializes(t, f.cls, f.self, NoArgs(f.cls),
                            SetTop(th, [f EXCEPT !.pc = "ret"]))

\* type.__call__: return obj
CallRet(t) ==
    /\ AtLine(t, "call", "ret")
    /\ Becomes(t, Returns(threads[t], Top(threads[t]).self), registry, heap)

\* __new__ line 20: if cls not in _instances
Check(t) ==
    /\ AtLine(t, "new", "20")
    /\ LET f == Top(threads[t])
       IN  Becomes(t, SetTop(threads[t],
                             [f EXCEPT !.pc = IF InRegistry(registry, f.cls)
                                               THEN "24" ELSE "22"]),
                   registry, heap)

\* __new__ line 22: instance = original_new(cls), the __new__ of the next
\* marked class above or object.__new__
Create(t) ==
    /\ AtLine(t, "new", "22")
    /\ LET f == Top(threads[t])
       IN  IF MarkedAbove(f.own) # NoType
           THEN Becomes(t, CallFrom(threads[t], f, "23",
                                    [Frame("new", "20", f.cls)
                                        EXCEPT !.own = MarkedAbove(f.own)]),
                        registry, heap)
           ELSE Allocates(t, f, f.cls, "23")

\* __new__ line 23: _instances[cls] = instance
Store(t) ==
    /\ AtLine(t, "new", "23")
    /\ LET f == Top(threads[t])
       IN  Becomes(t, SetTop(threads[t], [f EXCEPT !.pc = "24"]),
                   Put(registry, f.cls, f.val), heap)

\* __new__ line 24: return _instances[cls]
Return(t) ==
    /\ AtLine(t, "new", "24")
    /\ LET f == Top(threads[t])
       IN  IF InRegistry(registry, f.cls)
           THEN Becomes(t, Returns(threads[t], Lookup(registry, f.cls)), registry, heap)
           ELSE Becomes(t, Raises(threads[t], "KeyError"), registry, heap)

\* the first parameter from i on that inject_dependencies resolves (0: none)
NextOpen(T, kw, i) ==
    LET S == {j \in DOMAIN Params(T) :
                 j >= i /\ kw[j] = Unset /\ Params(T)[j].type # NoType}
    IN  IF S = {} THEN 0 ELSE CHOOSE j \in S : \A k \in S : j <= k

\* inject_dependencies lines 176-184: on to the next parameter to resolve and
\* into _get_or_create_instance for it, or to line 187
LoopFrom(th, f) ==
    LET j == NextOpen(f.cls, f.kw, f.i)
    IN  IF j = 0
        THEN SetTop(th, [f EXCEPT !.pc = "187"])
        ELSE CallFrom(th, [f EXCEPT !.i = j], "184",
                      Frame("resolve", "129", Params(f.cls)[j].type))

\* inject_dependencies, lines 169-184 for the first parameter
Loop(t) ==
    /\ AtLine(t, "inject", "176")
    /\ Becomes(t, LoopFrom(threads[t], Top(threads[t])), registry, heap)

\* _inject_parameter line 162: kwargs[param_name] = the resolved instance,
\* and the loop goes on
Inject(t) ==
    /\ AtLine(t, "inject", "184")
    /\ LET f == Top(threads[t])
       IN  Becomes(t, LoopFrom(threads[t],
                               [f EXCEPT !.kw[f.i] = f.val, !.i = f.i + 1,
                                         !.val = Unset]),
                   registry, heap)

\* inject_dependencies line 187: init_func(self, *args, **kwargs)
CallOriginalInit(t) ==
    /\ AtLine(t, "inject", "187")
    /\ LET f == Top(threads[t])
       IN  Initializes(t, f.cls, f.self, f.kw, Returns(threads[t], Unset))

\* _get_or_create_instance line 129: if param_type in _instances
Probe(t) ==
    /\ AtLine(t, "resolve", "129")
    /\ LET f == Top(threads[t])
       IN  Becomes(t, SetTop(threads[t],
                             [f EXCEPT !.pc = IF InRegistry(registry, f.cls)
                                               THEN "130" ELSE "133"]),
                   registry, heap)

\* line 130: return _instances[param_type]
Hit(t) ==
    /\ AtLine(t, "resolve", "130")
    /\ LET f == Top(threads[t])
       IN  IF InRegistry(registry, f.cls)
           THEN Becomes(t, Returns(threads[t], Lookup(registry, f.cls)), registry, heap)
           ELSE Becomes(t, Raises(threads[t], "KeyError"), registry, heap)

\* line 133: subclass_instance = _find_subclass_instance(param_type)
Scan(t) ==
    /\ AtLine(t, "resolve", "133")
    /\ LET f == Top(threads[t])
       IN  Becomes(t, CallFrom(threads[t], f, "134", Frame("find", "75", f.cls)),
                   registry, heap)

\* _find_subclass_instance lines 75-78: one round of the loop over
\* _instances.items(), which binds the local instance to the entry's object;
\* the iterator raises when the dict has changed size
Find(t) ==
    /\ AtLine(t, "find", "75")
    /\ LET th == threads[t]
           f == Top(th)
           used == IF f.used = Unset THEN Len(registry) ELSE f.used
       IN  IF Len(registry) # used
           THEN Becomes(t, Raises(th, "RuntimeError"), registry, heap)
           ELSE IF f.i >= Len(registry)
           THEN Becomes(t, Returns(th, Unset), registry, heap)
           ELSE IF IsSubclass(registry[f.i + 1].cls, f.cls)
                   /\ registry[f.i + 1].cls # f.cls
           THEN Becomes(t, Returns(th, registry[f.i + 1].inst), registry, heap)
           ELSE Becomes(t, SetTop(th, [f EXCEPT !.i = f.i + 1, !.used = used,
                                                !.val = registry[f.i + 1].inst]),
                        registry, heap)

\* lines 134-151: return the subclass instance if it is truthy; else into
\* _get_concrete_subclasses when the class has subclasses, else into
\* _create_and_register_instance(param_type)
Decide(t) ==
    /\ AtLine(t, "resolve", "134")
    /\ LET th == threads[t]
           f == Top(th)
       IN  IF Truthy(heap, f.val)
           THEN Becomes(t, Returns(th, f.val), registry, heap)
           ELSE IF DirectSubclasses(f.cls) # <<>>
           THEN Becomes(t, CallFrom(th, [f EXCEPT !.sub = f.val, !.val = Unset], "142",
                                    Frame("concrete", "93", f.cls)),
                        registry, heap)
           ELSE Becomes(t, CallFrom(th, [f EXCEPT !.sub = f.val, !.val = Unset], "151",
                                    Frame("create", "114", f.cls)),
                        registry, heap)

\* _get_concrete_subclasses lines 93-95: one round of the loop over
\* _instances.keys(); after the last one lines 98-102
Concrete(t) ==
    /\ AtLine(t, "concrete", "93")
    /\ LET th == threads[t]
           f == Top(th)
           used == IF f.used = Unset THEN Len(registry) ELSE f.used
           C == registry[f.i + 1].cls
       IN  IF Len(registry) # used
           THEN Becomes(t, Raises(th, "RuntimeError"), registry, heap)
           ELSE IF f.i >= Len(registry)
           THEN Becomes(t, ReturnsList(th,
                               f.list \o SelectSeq(DirectSubclasses(f.cls),
                                             LAMBDA D : ~IsAbstract(D)
                                                        /\ D \notin Range(f.list))),
                        registry, heap)
           ELSE Becomes(t, SetTop(th, [f EXCEPT
                                          !.i = f.i + 1, !.used = used,
                                          !.list = IF IsSubclass(C, f.cls) /\ C # f.cls
                                                   THEN Append(f.list, C)
                                                   ELSE f.list]),
                        registry, heap)

\* lines 142-148: the first concrete subclass, or the error
Choose(t) ==
    /\ AtLine(t, "resolve", "142")
    /\ LET th == threads[t]
           f == Top(th)
       IN  IF f.list # <<>>
           THEN Becomes(t, CallFrom(th, f, "145", Frame("create", "114", f.list[1])),
                        registry, heap)
           ELSE Becomes(t, Raises(th, "UnresolvableAbstract"), registry, heap)

\* lines 145, 151: return what _create_and_register_instance returned
Resolved(t) ==
    /\ AtLine(t, "resolve", "145") \/ AtLine(t, "resolve", "151")
    /\ Becomes(t, Returns(threads[t], Top(threads[t]).val), registry, heap)

\* _create_and_register_instance line 114: instance = cls()
Instantiate(t) ==
    /\ AtLine(t, "create", "114")
    /\ LET f == Top(threads[t])
       IN  Becomes(t, CallFrom(threads[t], f, "115", Frame("call", "new", f.cls)),
                   registry, heap)

\* lines 115-116: _instances[cls] = instance; return instance
Register(t) ==
    /\ AtLine(t, "create", "115")
    /\ LET f == Top(threads[t])
       IN  Becomes(t, Returns(threads[t], f.val), Put(registry, f.cls, f.val), heap)

ThreadNext ==
    \/ CollectCycles
    \/ \E t \in Threads :
        \/ \E T \in Types, keep \in BOOLEAN : Request(t, T, keep)
        \/ ThreadReset(t)
        \/ CallNew(t)
        \/ CallInit(t)
        \/ CallRet(t)
        \/ Check(t)
        \/ Create(t)
        \/ Store(t)
        \/ Return(t)
        \/ Loop(t)
        \/ Inject(t)
        \/ CallOriginalInit(t)
        \/ Probe(t)
        \/ Hit(t)
        \/ Scan(t)
        \/ Find(t)
        \/ Decide(t)
        \/ Concrete(t)
        \/ Choose(t)
        \/ Resolved(t)
        \/ Instantiate(t)
        \/ Register(t)

ThreadSpec == Init /\ [][ThreadNext]_vars

(***************************************************************************)
(* Vocabulary of the properties                                            *)
(***************************************************************************)
\* C is a subclass of P other than P
StrictSubclass(C, P) == IsSubclass(C, P) /\ C # P

\* the concrete classes below P, at any depth
ConcreteBelow(P) == {C \in Types : StrictSubclass(C, P) /\ ~IsAbstract(C)}

\* the first concrete direct subclass of P in declaration order
FirstConcrete(P) == SelectSeq(DirectSubclasses(P), LAMBDA C : ~IsAbstract(C))[1]

\* the registry holds P or a strict subclass of P
HoldsSome(reg, P) == \E C \in Keys(reg) : IsSubclass(C, P)

\* a marked concrete class without subclasses and without parameters
Leaf(D) ==
    /\ Class(D).mode = "class"
    /\ ~IsAbstract(D)
    /\ DirectSubclasses(D) = <<>>
    /\ Params(D) = <<>>

Constructed == last.op = "construct"

\* the last call supplied parameter i, and the value it supplied
SuppliedAt(i) == i <= Len(last.pos) \/ last.kw[i] # Unset
SuppliedValue(i) == IF i <= Len(last.pos) THEN last.pos[i] ELSE last.kw[i]
NothingSupplied == \A i \in DOMAIN Params(last.cls) : ~SuppliedAt(i)

\* the object the last call ran __init__ on
Self ==
    IF IsSingleton(last.cls) /\ InRegistry(last.regBefore, last.cls)
    THEN Lookup(last.regBefore, last.cls)
    ELSE last.heapBefore + 1

\* the keys the last call added to the registry
NewKeys == Keys(registry) \ Keys(last.regBefore)

\* no step but reset() drops or replaces the entry of a class of kind K
KeepsEntries(K(_)) ==
    last'.op # "reset" =>
        \A T \in Types :
            K(T) /\ InRegistry(registry, T) =>
                InRegistry(registry', T) /\ Lookup(registry', T) = Lookup(registry, T)

\* a call T() of a class of kind K that is registered returns the registered
\* instance
ReturnsRegistered(K(_)) ==
    Constructed /\ K(last.cls) /\ NothingSupplied /\ last.ok
    /\ InRegistry(last.regBefore, last.cls)
        => last.val = Lookup(last.regBefore, last.cls)

(***************************************************************************)
(* C1  Singleton identity: as long as reset() is not called, every T() of  *)
(* a marked class T without arguments returns the same object, the one the *)
(* registry holds under T.                                                 *)
(***************************************************************************)
SingletonIdentity ==
    /\ [](Constructed /\ IsSingleton(last.cls) /\ NothingSupplied /\ last.ok
            => /\ InRegistry(registry, last.cls)
               /\ last.val = Lookup(registry, last.cls))
    /\ [](ReturnsRegistered(IsSingleton))
    /\ [][KeepsEntries(IsSingleton)]_vars

\* a second T() has returned the object the first one registered
SingletonIdentityWitness ==
    /\ Constructed /\ IsSingleton(last.cls) /\ NothingSupplied /\ last.ok
    /\ InRegistry(last.regBefore, last.cls)
    /\ last.val = Lookup(last.regBefore, last.cls)
    /\ Params(last.cls) # <<>>

(***************************************************************************)
(* C2  Initialization runs once: a T() of a marked class that is already   *)
(* registered returns the cached object without running its initializer    *)
(* again.                                                                  *)
(***************************************************************************)
InitializerRunsOnce ==
    Constructed /\ Class(last.cls).mode = "class"
    /\ InRegistry(last.regBefore, last.cls)
        => \A e \in Range(last.inits) : e.inst # Lookup(last.regBefore, last.cls)

(***************************************************************************)
(* C3  Isolation via reset: reset() leaves the registry empty, and a T()   *)
(* of a marked class that the registry does not hold (as after reset())    *)
(* returns an object that did not exist before the call, registered under  *)
(* T, whose state is the one its initializer gave it in this call.         *)
(***************************************************************************)
IsolationViaReset ==
    /\ last.op = "reset" => registry = <<>>
    /\ Constructed /\ IsSingleton(last.cls) /\ last.ok
       /\ ~InRegistry(last.regBefore, last.cls)
        => /\ last.val > last.heapBefore
           /\ last.val # last.held
           /\ heap[last.val].type = last.cls
           /\ InRegistry(registry, last.cls)
           /\ Lookup(registry, last.cls) = last.val
           /\ last.inits # <<>>
           /\ last.inits[Len(last.inits)].inst = last.val
           /\ last.inits[Len(last.inits)].args = heap[last.val].fields

\* the caller holds an instance of T from before a reset and T() has built
\* another one
IsolationViaResetWitness ==
    /\ Constructed /\ IsSingleton(last.cls) /\ last.ok
    /\ ~InRegistry(last.regBefore, last.cls)
    /\ last.heldType = last.cls
    /\ last.val # last.held

(***************************************************************************)
(* C4  Manual override.                                                    *)
(***************************************************************************)
SomethingSupplied == \E i \in DOMAIN Params(last.cls) : SuppliedAt(i)

\* every parameter with a type hint was supplied: nothing is left to resolve
AllTypedSupplied ==
    \A i \in DOMAIN Params(last.cls) :
        Params(last.cls)[i].type # NoType => SuppliedAt(i)

\* the initializer got the caller's value for every supplied parameter, and
\* the resolver was not asked for any of them
SuppliedVerbatim ==
    /\ last.ok =>
        \A i \in DOMAIN Params(last.cls) :
            SuppliedAt(i) => /\ last.inits[Len(last.inits)].inst = last.val
                             /\ last.inits[Len(last.inits)].args[i] = SuppliedValue(i)
                             /\ heap[last.val].fields[i] = SuppliedValue(i)
    /\ \A e \in Range(last.injects) : e.inst = Self => ~SuppliedAt(e.param)

\* C4 as stated: a call that supplies a parameter hands the value over
\* verbatim, resolves nothing for it, and adds no registry entry except the
\* one of the constructed class
ManualOverrideAddsOnlyOwnEntry ==
    Constructed /\ SomethingSupplied
        => /\ SuppliedVerbatim
           /\ NewKeys \subseteq {last.cls}

\* C4 amended: a call that supplies a parameter hands the value over
\* verbatim and resolves nothing for it; no entry it adds holds a supplied
\* value; each entry it adds is the one of the constructed class or was made
\* by a resolution for a parameter that was not supplied, so that a call that
\* supplies every typed parameter adds at most the entry of its own class
ManualOverride ==
    Constructed /\ SomethingSupplied
        => /\ SuppliedVerbatim
           /\ \A i \in DOMAIN registry :
                 registry[i].cls \in NewKeys =>
                     /\ \A j \in DOMAIN Params(last.cls) :
                            SuppliedAt(j) => registry[i].inst # SuppliedValue(j)
                     /\ \/ registry[i].cls = last.cls
                        \/ \E e \in Range(last.resolves) :
                               registry[i].cls \in Keys(e.regAfter) \ Keys(e.regBefore)
           /\ AllTypedSupplied => NewKeys \subseteq {last.cls} /\ last.resolves = <<>>

\* Service(dependency=custom) with custom an object the caller obtained
\* earlier: the service holds it and the registry has gained no key for it
ManualOverrideWitness ==
    /\ Constructed /\ last.ok /\ Class(last.cls).mode = "class"
    /\ \E i \in DOMAIN Params(last.cls) :
          /\ SuppliedAt(i) /\ SuppliedValue(i) = last.held /\ last.held # Unset
          /\ Params(last.cls)[i].type # NoType
          /\ ~InRegistry(registry, Params(last.cls)[i].type)
          /\ heap[last.val].fields[i] = last.held
    /\ NewKeys = {last.cls}

(***************************************************************************)
(* C5  Transitive injection: with an empty registry, Service() for a marked*)
(* Service whose parameters are of marked concrete classes without        *)
(* subtypes and parameters succeeds, each injected value is an instance of *)
(* the parameter's class registered under that class, and a later call of  *)
(* that class (no reset in between) returns the same instance.            *)
(***************************************************************************)
RequiresLeaves(S) ==
    /\ Class(S).mode = "class" /\ ~IsAbstract(S)
    /\ Params(S) # <<>>
    /\ \A i \in DOMAIN Params(S) :
          Params(S)[i].type # NoType /\ Leaf(Params(S)[i].type)

TransitiveInjection ==
    /\ [](Constructed /\ RequiresLeaves(last.cls) /\ NothingSupplied
          /\ last.regBefore = <<>>
            => /\ last.ok
               /\ \A i \in DOMAIN Params(last.cls) :
                     LET x == heap[last.val].fields[i]
                         D == Params(last.cls)[i].type
                     IN  /\ x > 0
                         /\ heap[x].type = D
                         /\ InRegistry(registry, D)
                         /\ Lookup(registry, D) = x)
    /\ [](ReturnsRegistered(Leaf))
    /\ [][KeepsEntries(Leaf)]_vars

\* Service() on an empty registry has injected the Dependency it created
TransitiveInjectionWitness ==
    /\ Constructed /\ RequiresLeaves(last.cls) /\ NothingSupplied
    /\ last.regBefore = <<>> /\ last.ok
    /\ Len(Params(last.cls)) = 1
    /\ InRegistry(registry, Params(last.cls)[1].type)
    /\ heap[last.val].fields[1] = Lookup(registry, Params(last.cls)[1].type)

(***************************************************************************)
(* C6  Subtype substitution: a resolution of P, when P has a concrete      *)
(* direct subclass and the registry holds neither P nor a strict subclass  *)
(* of P, calls the constructor of the first concrete direct subclass C in  *)
(* declaration order; the object it returns is the new instance of C,     *)
(* registered under C and not under P.                                     *)
(***************************************************************************)
Substitutes(e) ==
    /\ \E C \in Range(DirectSubclasses(e.type)) : ~IsAbstract(C)
    /\ ~HoldsSome(e.regBefore, e.type)

SubtypeSubstitution ==
    \A e \in Range(last.resolves) :
        Substitutes(e) =>
            /\ e.rule = 3
            /\ e.ctor = FirstConcrete(e.type)
            /\ e.callsAfter > e.callsBefore
            /\ last.calls[e.callsBefore + 1] = FirstConcrete(e.type)
            /\ e.ok => /\ e.vtype = FirstConcrete(e.type)
                       /\ e.val > 0
                       /\ ~InRegistry(e.regBefore, e.ctor)
                       /\ Lookup(e.regAfter, e.ctor) = e.val
                       /\ \A i \in DOMAIN e.regAfter :
                             e.regAfter[i].cls = e.type => e.regAfter[i].inst # e.val

\* a resolution has passed over an abstract first subclass and returned an
\* instance of the concrete one declared after it
SubtypeSubstitutionWitness ==
    \E e \in Range(last.resolves) :
        /\ Substitutes(e) /\ e.ok
        /\ IsAbstract(DirectSubclasses(e.type)[1])
        /\ e.vtype = FirstConcrete(e.type)
        /\ InRegistry(registry, e.vtype)
        /\ Lookup(registry, e.vtype) = e.val

(***************************************************************************)
(* C7  Abstract type without implementer: T() for a class whose first      *)
(* parameter to resolve has an abstract declared class P with no concrete  *)
(* subclass at any depth (P may have no subclass at all), the registry     *)
(* holding neither P nor a subclass, fails with the library's error for   *)
(* the unresolvable abstract class P, and the constructor of P is never   *)
(* called.                                                                 *)
(***************************************************************************)
FirstResolved(T) ==
    CHOOSE i \in DOMAIN Params(T) :
        /\ ~SuppliedAt(i) /\ Params(T)[i].type # NoType
        /\ \A j \in 1 .. (i - 1) : SuppliedAt(j) \/ Params(T)[j].type = NoType

NeedsUnimplemented ==
    /\ Constructed /\ Injects(last.cls) /\ ~IsAbstract(last.cls)
    /\ \E i \in DOMAIN Params(last.cls) :
          ~SuppliedAt(i) /\ Params(last.cls)[i].type # NoType
    /\ LET P == Params(last.cls)[FirstResolved(last.cls)].type
       IN  /\ IsAbstract(P)
           /\ ConcreteBelow(P) = {}
           /\ ~HoldsSome(last.regBefore, P)

AbstractWithoutImplementerFails ==
    NeedsUnimplemented =>
        LET P == Params(last.cls)[FirstResolved(last.cls)].type
        IN  /\ ~last.ok
            /\ last.err = "UnresolvableAbstract"
            /\ last.ecls = P
            /\ P \notin Range(last.calls)

(***************************************************************************)
(* C8  The library's error for an unresolvable abstract class P is raised  *)
(* only when P has no concrete strict subclass at any depth; when it has   *)
(* one, the resolution of P returns an instance of a concrete subclass.   *)
(***************************************************************************)
UnresolvableOnlyWithoutImplementer ==
    \A e \in Range(last.resolves) :
        /\ e.err = "UnresolvableAbstract" /\ e.ecls = e.type
               => ConcreteBelow(e.type) = {}
        /\ ConcreteBelow(e.type) # {}
               => e.ok /\ IsSubclass(e.vtype, e.type) /\ ~IsAbstract(e.vtype)

(***************************************************************************)
(* C9  Multiple independent dependencies.                                  *)
(***************************************************************************)
\* a marked concrete class
Marked(A) == Class(A).mode = "class" /\ ~IsAbstract(A)

\* a marked concrete class without subclasses
MarkedChildless(A) == Marked(A) /\ DirectSubclasses(A) = <<>>

\* T is marked and declares two parameters, of unrelated marked concrete
\* classes
TwoUnrelated(T) ==
    /\ Marked(T)
    /\ Len(Params(T)) = 2
    /\ \A i \in 1 .. 2 : Params(T)[i].type # NoType /\ Marked(Params(T)[i].type)
    /\ ~IsSubclass(Params(T)[1].type, Params(T)[2].type)
    /\ ~IsSubclass(Params(T)[2].type, Params(T)[1].type)

\* the two parameters got an instance of their class each, two objects, and
\* the registry holds each under the parameter's class, so that a call of
\* that class returns it
EachInjectedAndRegistered ==
    LET a == heap[last.val].fields[1]
        b == heap[last.val].fields[2]
        A == Params(last.cls)[1].type
        B == Params(last.cls)[2].type
    IN  /\ a > 0 /\ IsSubclass(heap[a].type, A)
        /\ b > 0 /\ IsSubclass(heap[b].type, B)
        /\ a # b
        /\ InRegistry(registry, A) /\ Lookup(registry, A) = a
        /\ InRegistry(registry, B) /\ Lookup(registry, B) = b

\* C9 as stated: T() for a marked T with parameters of two unrelated marked
\* concrete classes A and B passes an instance of A and another of B, and
\* A() and B() afterwards return the injected instances
MultipleDependenciesAnyClasses ==
    Constructed /\ TwoUnrelated(last.cls) /\ NothingSupplied /\ last.ok
        => EachInjectedAndRegistered

\* C9 amended: the same for A and B that have no subclasses: T() passes an
\* instance of A and another of B, registered under A and B, and a later A()
\* or B() (no reset in between) returns the injected instance
MultipleDependencies ==
    /\ [](Constructed /\ TwoUnrelated(last.cls) /\ NothingSupplied
          /\ (\A i \in 1 .. 2 : MarkedChildless(Params(last.cls)[i].type))
            => /\ (\A i \in 1 .. 2 : Params(Params(last.cls)[i].type) = <<>>) => last.ok
               /\ last.ok => EachInjectedAndRegistered)
    /\ [](ReturnsRegistered(MarkedChildless))
    /\ [][KeepsEntries(MarkedChildless)]_vars

\* MultiService() has received its two dependencies, both created by the call
MultipleDependenciesWitness ==
    /\ Constructed /\ TwoUnrelated(last.cls) /\ NothingSupplied /\ last.ok
    /\ \A i \in 1 .. 2 : MarkedChildless(Params(last.cls)[i].type)
    /\ last.regBefore = <<>>
    /\ EachInjectedAndRegistered

(***************************************************************************)
(* C10  Exact cache hit first: a resolution of P while the registry holds  *)
(* an entry under P returns the instance of that entry, whatever instances *)
(* of subclasses were registered before it, calls no constructor and       *)
(* leaves the registry as it was.                                          *)
(***************************************************************************)
ExactHitFirst ==
    \A e \in Range(last.resolves) :
        InRegistry(e.regBefore, e.type) =>
            /\ e.ok
            /\ e.val = Lookup(e.regBefore, e.type)
            /\ e.regAfter = e.regBefore
            /\ e.callsAfter = e.callsBefore

\* a resolution of P has returned P's instance although an instance of a
\* strict subclass was registered before it
ExactHitFirstWitness ==
    \E e \in Range(last.resolves) :
        \E i, j \in DOMAIN e.regBefore :
            /\ i < j
            /\ StrictSubclass(e.regBefore[i].cls, e.type)
            /\ e.regBefore[j].cls = e.type
            /\ e.val = e.regBefore[j].inst

(***************************************************************************)
(* C11  Known-subtype reuse: a resolution of P while the registry holds no *)
(* entry under P but an entry under a strict subclass of P returns the     *)
(* instance of the first such entry in insertion order, calls no           *)
(* constructor and leaves the registry as it was.                          *)
(***************************************************************************)
HoldsStrictSubclass(reg, P) == \E C \in Keys(reg) : StrictSubclass(C, P)

KnownSubtypeReuse ==
    \A e \in Range(last.resolves) :
        ~InRegistry(e.regBefore, e.type) /\ HoldsStrictSubclass(e.regBefore, e.type)
            => /\ e.ok
               /\ e.val = FindSubclassInstance(e.regBefore, e.type)
               /\ e.callsAfter = e.callsBefore
               /\ e.regAfter = e.regBefore

(***************************************************************************)
(* C12  Mixed mode: a call T(...) of an injecting class that succeeds has  *)
(* run T's initializer once, with a value for every parameter: the caller's*)
(* value for a supplied parameter, the result of a resolution of the       *)
(* declared class for an omitted parameter with a type hint.  Nothing is   *)
(* resolved for a supplied parameter or for one without type hint, so a    *)
(* call that leaves only untyped parameters open resolves nothing and adds *)
(* at most the entry of its own class.                                     *)
(***************************************************************************)
\* the runs of the initializer on the object the last call returned
OwnInits == {k \in DOMAIN last.inits : last.inits[k].inst = last.val}

\* parameter i was left to the resolver
Open(i) == ~SuppliedAt(i) /\ Params(last.cls)[i].type # NoType

MixedMode ==
    Constructed /\ Injects(last.cls) =>
        /\ last.ok =>
              /\ Cardinality(OwnInits) = 1
              /\ \A k \in OwnInits : \A i \in DOMAIN Params(last.cls) :
                    LET x == last.inits[k].args[i]
                    IN  /\ x # Unset
                        /\ heap[last.val].fields[i] = x
                        /\ SuppliedAt(i) => x = SuppliedValue(i)
                        /\ Open(i) =>
                              /\ \E e \in Range(last.injects) :
                                    e.inst = last.val /\ e.param = i /\ e.val = x
                              /\ \E e \in Range(last.resolves) :
                                    /\ e.type = Params(last.cls)[i].type
                                    /\ e.ok /\ e.val = x
        /\ \A e \in Range(last.injects) : e.inst = Self => Open(e.param)
        /\ \A e \in Range(last.resolves) : e.type # NoType
        /\ (\A i \in DOMAIN Params(last.cls) : ~Open(i))
              => last.resolves = <<>> /\ NewKeys \subseteq {last.cls}

\* a call has supplied one parameter and had another one injected
MixedModeWitness ==
    /\ Constructed /\ Injects(last.cls) /\ last.ok
    /\ \E i, j \in DOMAIN Params(last.cls) :
          /\ SuppliedAt(i) /\ heap[last.val].fields[i] = Mock
          /\ Open(j)
          /\ heap[last.val].fields[j] > 0
          /\ InRegistry(registry, Params(last.cls)[j].type)
          /\ heap[last.val].fields[j] = Lookup(registry, Params(last.cls)[j].type)

(***************************************************************************)
(* C13  Concurrent singleton safety: two distinct threads that have called *)
(* the same marked class T on an empty registry, both successfully and     *)
(* keeping the object returned, no thread calling reset(), hold the same   *)
(* object, and it is the one the registry holds under T.                   *)
(***************************************************************************)
Finished(t) == threads[t].status = "done" /\ threads[t].ok /\ threads[t].keep

\* thread t has called a class that make_singleton has patched
CalledMarked(t) == threads[t].cls \in Types /\ IsSingleton(threads[t].cls)

ConcurrentSingletonSafety ==
    \A s, t \in Threads :
        (/\ s # t /\ Finished(s) /\ Finished(t)
         /\ CalledMarked(s) /\ threads[s].cls = threads[t].cls)
            => /\ threads[s].result = threads[t].result
               /\ InRegistry(registry, threads[t].cls)
               /\ Lookup(registry, threads[t].cls) = threads[t].result

(***************************************************************************)
(* C14  Declaration order: a successful call T() that leaves open an       *)
(* earlier parameter of class C and a later one of class P, C a strict    *)
(* subclass of P, the registry holding neither P nor a subclass of P       *)
(* before the call, passes one object for both parameters, and that object *)
(* is the only instance of P or of a subclass of P the call has created.   *)
(***************************************************************************)
\* the objects of class P or below that the last call created
CreatedBelow(P) ==
    {x \in DOMAIN heap : x > last.heapBefore /\ heap[x].type # NoType
                         /\ IsSubclass(heap[x].type, P)}

EarlierSubtypeShared ==
    Constructed /\ Injects(last.cls) /\ last.ok =>
        \A i, j \in DOMAIN Params(last.cls) :
            (/\ i < j /\ Open(i) /\ Open(j)
             /\ StrictSubclass(Params(last.cls)[i].type, Params(last.cls)[j].type)
             /\ ~HoldsSome(last.regBefore, Params(last.cls)[j].type))
                => /\ heap[last.val].fields[i] = heap[last.val].fields[j]
                   /\ CreatedBelow(Params(last.cls)[j].type)
                          = {heap[last.val].fields[i]}

(***************************************************************************)
(* C15  Failed construction leaves no entry: after a call T(...) of a      *)
(* marked class T that was not registered and that fails, the registry    *)
(* holds no entry under T; and a resolution on its own never returns an    *)
(* object with a field its initializer has not set.                        *)
(***************************************************************************)
FailedConstructionLeavesNoEntry ==
    /\ Constructed /\ IsSingleton(last.cls) /\ ~last.ok
       /\ ~InRegistry(last.regBefore, last.cls)
           => ~InRegistry(registry, last.cls)
    /\ last.op = "resolve" /\ last.ok
           => \A i \in DOMAIN heap[last.val].fields :
                  heap[last.val].fields[i] # Unset

(***************************************************************************)
(* C16  Resolution stability: two resolutions of the same class P, in the  *)
(* same call or in two calls that follow each other without a reset(),    *)
(* return the same object.                                                 *)
(***************************************************************************)
SameAnswer(es, fs) ==
    \A e \in Range(es) : \A f \in Range(fs) :
        e.ok /\ f.ok /\ e.type = f.type => e.val = f.val

ResolutionStability ==
    /\ [](SameAnswer(last.resolves, last.resolves))
    /\ [][last'.op # "reset" => SameAnswer(last.resolves, last'.resolves)]_vars

(***************************************************************************)
(* C17  Registry entries are stable: a step other than reset() keeps every *)
(* entry of the registry, with the instance it holds.                      *)
(***************************************************************************)
AnyClass(T) == TRUE

RegistryEntriesStable == [][KeepsEntries(AnyClass)]_vars

(***************************************************************************)
(* C18  Type safety of injection: every resolution of P that succeeds      *)
(* returns an instance of P or of a subclass of P; every value the         *)
(* resolver injects is the result of such a resolution for the parameter's *)
(* declared class; every registry entry under T holds an object whose      *)
(* class is T.                                                             *)
(***************************************************************************)
TypeSafety ==
    /\ \A i \in DOMAIN registry :
          /\ registry[i].inst \in DOMAIN heap
          /\ heap[registry[i].inst].type = registry[i].cls
    /\ \A e \in Range(last.resolves) :
          /\ \A i \in DOMAIN e.regAfter :
                heap[e.regAfter[i].inst].type \in {e.regAfter[i].cls, NoType}
          /\ e.ok => e.val > 0 /\ IsSubclass(e.vtype, e.type)
    /\ \A e \in Range(last.injects) :
          \E r \in Range(last.resolves) :
              /\ r.ok /\ r.val = e.val
              /\ heap[e.inst].type # NoType
                    => r.type = Params(heap[e.inst].type)[e.param].type
    /\ Constructed /\ Injects(last.cls) /\ last.ok =>
          \A i \in DOMAIN Params(last.cls) :
              Open(i) => IsSubclass(heap[heap[last.val].fields[i]].type,
                                    Params(last.cls)[i].type)

\* a call has injected the registered instance of a strict subclass of the
\* parameter's class, found by the scan of the registry
TypeSafetyWitness ==
    /\ Constructed /\ Injects(last.cls) /\ last.ok
    /\ \E i \in DOMAIN Params(last.cls) : \E e \in Range(last.resolves) :
          /\ Open(i) /\ e.type = Params(last.cls)[i].type
          /\ e.rule = 2 /\ e.vtype # e.type
          /\ heap[last.val].fields[i] = e.val
          /\ Len(e.regBefore) > 1

(***************************************************************************)
(* C19  Termination: in a universe whose classes are all marked, no call   *)
(* T() and no resolution ends because the nesting of constructor calls     *)
(* exhausted the interpreter's stack.                                      *)
(***************************************************************************)
AllMarked == \A T \in Types : Class(T).mode = "class"

Termination ==
    AllMarked => last.err # "RecursionError"

====
